---- MODULE Spec2Model ----
(***************************************************************************)
(* Model of the two Streamlit programs of the repository:                  *)
(*   app.py                    "Paper Reader Assistant"  (schema variant A, *)
(*                             URL -> summary -> Supabase insert)           *)
(*   paper_digest_assistant.py "Research Paper Digest Assistant" (schema   *)
(*                             variant B, URL or raw text -> summary ->     *)
(*                             Word document)                               *)
(*                                                                         *)
(* Representation of strings.  A text is a sequence of runs <<w, n>>: the   *)
(* word w repeated n times.  Paper texts use one-character words, so the    *)
(* real thresholds (100, 10000, 200, 50) are kept while texts stay small.  *)
(* Fixed phrases of messages are one word each; the words on which the      *)
(* code's substring tests can succeed ("api_key", "Invalid", ".pdf", ...)   *)
(* are words of their own.                                                  *)
(***************************************************************************)
EXTENDS Integers, Sequences, FiniteSets, TLC

VARIABLES
    app,        \* which program runs: "app" (app.py) or "digest"
    apiKey,     \* st.session_state["openai_api_key"] is set
    mode,       \* digest: the radio, "URL" or "Raw Text"
    paper_url,  \* the text_input "paper_url_input"
    raw_text,   \* digest: the text_area "raw_text_input"
    ss,         \* digest: st.session_state paper_text/source_type/source_value
    run,        \* what the last script run (rerun of main) did
    files,      \* digest: documents in the working directory, name -> writes
    clock,      \* wall clock, in seconds
    nruns       \* number of button handlers run so far

vars == <<app, apiKey, mode, paper_url, raw_text, ss, run, files, clock, nruns>>

-----------------------------------------------------------------------------
(* Bounds of the model *)

MaxRuns == 2
MaxClock == 1

(* Constants of the program *)

MaxLength == 10000
MinLength == 100
DiagLength == 200
TitleCut == 50

-----------------------------------------------------------------------------
(* Texts *)

Lit(w) == << <<w, 1>> >>

Rep(w, n) == << <<w, n>> >>

IsSpace(w) == w \in {" ", "\n", "\t"}

RECURSIVE TextLen(_)
TextLen(t) ==
    IF t = <<>> THEN 0 ELSE Len(t[1][1]) * t[1][2] + TextLen(Tail(t))

\* The same string written with adjacent equal runs merged.
RECURSIVE Canon(_)
Canon(t) ==
    IF t = <<>> THEN <<>>
    ELSE IF t[1][2] = 0 THEN Canon(Tail(t))
    ELSE IF Len(t) >= 2 /\ t[1][1] = t[2][1]
         THEN Canon(<< <<t[1][1], t[1][2] + t[2][2]>> >> \o SubSeq(t, 3, Len(t)))
    ELSE <<t[1]>> \o Canon(Tail(t))

\* str.split(): the maximal whitespace-free pieces, in order.
RECURSIVE Split(_, _)
Split(t, cur) ==
    IF t = <<>> THEN (IF cur = <<>> THEN <<>> ELSE <<cur>>)
    ELSE IF IsSpace(t[1][1])
         THEN (IF cur = <<>> THEN <<>> ELSE <<cur>>) \o Split(Tail(t), <<>>)
    ELSE Split(Tail(t), cur \o <<t[1]>>)

\* sep.join(parts)
RECURSIVE Join(_, _)
Join(sep, parts) ==
    IF parts = <<>> THEN <<>>
    ELSE IF Len(parts) = 1 THEN parts[1]
    ELSE parts[1] \o sep \o Join(sep, Tail(parts))

RECURSIVE LStrip(_)
LStrip(t) ==
    IF t = <<>> THEN <<>>
    ELSE IF IsSpace(t[1][1]) THEN LStrip(Tail(t)) ELSE t

RECURSIVE RStrip(_)
RStrip(t) ==
    IF t = <<>> THEN <<>>
    ELSE IF IsSpace(t[Len(t)][1]) THEN RStrip(SubSeq(t, 1, Len(t) - 1)) ELSE t

\* str.strip()
Strip(t) == RStrip(LStrip(t))

\* A proper prefix of a word of several characters, left by a slice.
Frag == "#"

\* t[:k]
RECURSIVE Prefix(_, _)
Prefix(t, k) ==
    IF t = <<>> \/ k <= 0 THEN <<>>
    ELSE LET w == t[1][1]
             total == Len(w) * t[1][2]
         IN IF total <= k THEN <<t[1]>> \o Prefix(Tail(t), k - total)
            ELSE (IF k \div Len(w) > 0 THEN Rep(w, k \div Len(w)) ELSE <<>>)
                 \o (IF k % Len(w) > 0 THEN Rep(Frag, k % Len(w)) ELSE <<>>)

\* str.lower() of a word, for the words of the model that have capitals.
LowerWord(w) ==
    CASE w = "Invalid" -> "invalid"
      [] w = ".PDF" -> ".pdf"
      [] w = "Application/PDF" -> "application/pdf"
      [] OTHER -> w

\* marker in text.lower(): a marker is found where a word of the text is it.
Contains(t, marker) == \E i \in 1..Len(t) : LowerWord(t[i][1]) = marker

TruncMarker == <<<<".", 3>>, <<" ", 1>>, <<"[", 1>>, <<"truncated", 1>>, <<"]", 1>>>>

-----------------------------------------------------------------------------
(* Results of calls: a value, or a raised exception with its message *)

Ok(v) == [ok |-> TRUE, val |-> v, err |-> <<>>]

Raise(msg) == [ok |-> FALSE, val |-> <<>>, err |-> msg]

TooShortMsg == Lit("Extracted text is too short or empty. The content may be inaccessible.")

\* Whitespace collapsing and the length cap (clean_text, first half).
CollapseNoSpaces(text) == Strip(Join(<<>>, Split(text, <<>>)))

Collapse(text) == Strip(Join(Lit(" "), Split(text, <<>>)))

TruncateAtLeast(text, max_length) ==
    IF TextLen(text) >= max_length
    THEN Canon(Prefix(text, max_length) \o TruncMarker)
    ELSE text

Truncate(text, max_length) ==
    IF TextLen(text) > max_length
    THEN Canon(Prefix(text, max_length) \o TruncMarker)
    ELSE text

\* clean_text(text, max_length = 10000)
CleanText(text) ==
    LET cut == Truncate(Collapse(text), MaxLength)
    IN IF cut = <<>> \/ TextLen(Strip(cut)) < MinLength
       THEN Raise(TooShortMsg)
       ELSE Ok(cut)

-----------------------------------------------------------------------------
(* JSON values, and the reply of the summarization service *)

JStr(t) == [t |-> "str", v |-> t]

JList(items) == [t |-> "list", v |-> items]

JNum(n) == [t |-> "num", v |-> n]

JNull == [t |-> "null", v |-> <<>>]

JObj == [t |-> "obj", v |-> <<>>]

\* Pieces of the reply's text: a code fence, a JSON object, other text (with
\* the message json.loads gives for it).
FenceJson == [k |-> "fence", tag |-> "json"]

Fence == [k |-> "fence", tag |-> ""]

ObjPiece(f) == [k |-> "obj", f |-> f]

TextPiece(t, perr) == [k |-> "text", t |-> t, perr |-> perr]

ExpectingValue == Lit("Expecting value: line 1 column 1 (char 0)")

InvalidControl ==
    <<<<"Invalid", 1>>, <<" control character at: line 1 column 13 (char 12)", 1>>>>

\* The fence character, the backquote, written as a quote.
FenceChar == "'"

\* The characters of a piece.  An object's own text is not modelled: it is
\* read only when a fence is left in front of it.
Render(piece) ==
    CASE piece.k = "fence" -> Rep(FenceChar, 3) \o (IF piece.tag = "json" THEN Lit("json") ELSE <<>>)
      [] piece.k = "text" -> piece.t
      [] OTHER -> Lit("{...}")

RECURSIVE RenderAll(_)
RenderAll(c) == IF c = <<>> THEN <<>> ELSE Render(c[1]) \o RenderAll(Tail(c))

\* The removal of markdown code fences around the reply.
StripFences(content) ==
    LET c1 == IF content # <<>> /\ content[1] = FenceJson THEN Tail(content) ELSE content
        c2 == IF c1 # <<>> /\ c1[1] = Fence THEN Tail(c1)
              ELSE IF c1 # <<>> /\ c1[1] = FenceJson
                   THEN <<TextPiece(Lit("json"), ExpectingValue)>> \o Tail(c1)
              ELSE c1
        c3 == IF c2 # <<>> /\ c2[Len(c2)] = Fence THEN SubSeq(c2, 1, Len(c2) - 1) ELSE c2
    IN c3

\* json.loads(content)
JsonLoads(content) ==
    IF Len(content) = 1 /\ content[1].k = "obj" THEN Ok(content[1].f)
    ELSE IF content # <<>> /\ content[1].k = "text" THEN Raise(content[1].perr)
    ELSE IF content # <<>> /\ content[1].k = "obj" THEN Raise(Lit("Extra data: line 1 column 6 (char 5)"))
    ELSE Raise(ExpectingValue)

RequiredKeysA == <<"title", "abstract_summary", "key_points", "methodology">>

RequiredKeysB ==
    <<"title", "field_or_topic", "research_question", "methodology",
      "key_findings", "limitations", "personal_takeaway">>

RequiredKeys(variant) == IF variant = "A" THEN RequiredKeysA ELSE RequiredKeysB

ListKey(variant) == IF variant = "A" THEN "key_points" ELSE "key_findings"

\* The words whose presence in the message makes the handler report an
\* authentication failure.
AuthMarkers(variant) ==
    IF variant = "A" THEN {"api_key", "authentication"}
    ELSE {"api_key", "authentication", "invalid"}

ParseFailedPrefix == "Failed to parse JSON from OpenAI response: "

MissingKeyPrefix == "Missing required key '"

AuthFailedPrefix == "OpenAI API authentication failed: "

SummarizeErrorPrefix == "Error summarizing paper with OpenAI: "

\* for key in required_keys: if key not in summary: the first such key's index
FirstMissingLast(keys, summary) ==
    LET missing == {i \in 1..Len(keys) : keys[i] \notin DOMAIN summary}
    IN IF missing = {} THEN 0 ELSE CHOOSE i \in missing : \A j \in missing : j <= i

FirstMissing(keys, summary) ==
    LET missing == {i \in 1..Len(keys) : keys[i] \notin DOMAIN summary}
    IN IF missing = {} THEN 0 ELSE CHOOSE i \in missing : \A j \in missing : i <= j

\* "Ensure key_points is a list"
CoerceListDropString(summary, key) ==
    IF summary[key].t = "list" THEN summary
    ELSE [summary EXCEPT ![key] = JList(<<>>)]

CoerceList(summary, key) ==
    IF summary[key].t = "list" THEN summary
    ELSE IF summary[key].t = "str" THEN [summary EXCEPT ![key] = JList(<<summary[key]>>)]
    ELSE [summary EXCEPT ![key] = JList(<<>>)]

\* The validation half of the try block: required keys, then the list field.
Validate(variant, parsed) ==
    IF FirstMissing(RequiredKeys(variant), parsed) # 0
    THEN Raise(Lit(MissingKeyPrefix)
               \o Lit(RequiredKeys(variant)[FirstMissing(RequiredKeys(variant), parsed)])
               \o Lit("' in OpenAI response"))
    ELSE Ok(CoerceList(parsed, ListKey(variant)))

\* The parsing half of the try block, on the reply with its fences removed.
ParseAndValidate(variant, content, parsed) ==
    IF ~parsed.ok
    THEN Raise(Lit(ParseFailedPrefix) \o parsed.err \o Lit(". Response was: ")
               \o Prefix(RenderAll(content), DiagLength))
    ELSE Validate(variant, parsed.val)

\* The try block of summarize_paper / summarize_paper_with_openai, given what
\* client.chat.completions.create does.
SummarizeTry(variant, outcome) ==
    IF outcome.k = "raise" THEN Raise(outcome.err)
    ELSE ParseAndValidate(variant, StripFences(outcome.content),
                          JsonLoads(StripFences(outcome.content)))

\* The except clause: how a failure of the try block is reported.
Report(variant, r) ==
    IF r.ok THEN r
    ELSE IF \E mk \in AuthMarkers(variant) : Contains(r.err, mk)
         THEN Raise(Lit(AuthFailedPrefix) \o r.err)
         ELSE Raise(Lit(SummarizeErrorPrefix) \o r.err)

\* summarize_paper (variant B) / summarize_paper_with_openai (variant A)
SummarizePaper(variant, outcome) == Report(variant, SummarizeTry(variant, outcome))

-----------------------------------------------------------------------------
(* Fetching and text extraction *)

\* url.endswith('.pdf')
UrlEndsWithPdf(url) == url # <<>> /\ url[Len(url)] = ".pdf"

\* 'pdf' in paper_url.lower(); covers paper_url.lower().endswith('.pdf')
UrlLowerHasPdf(url) == \E i \in 1..Len(url) : LowerWord(url[i]) \in {".pdf", "pdf/"}

\* 'application/pdf' in response.headers.get('Content-Type', '').lower()
CtypeHasPdf(ctype) == \E i \in 1..Len(ctype) : LowerWord(ctype[i]) = "application/pdf"

\* What BeautifulSoup's get_text gives for the bytes of a PDF.
JunkText == <<<<"%", 1>>, <<"?", 500>>>>

\* PdfReader and the page loop: the text of the first pages, or a parse error.
PdfExtract(resp) ==
    IF resp.fmt = "pdf" THEN Ok(resp.text) ELSE Raise(Lit("EOF marker not found"))

\* BeautifulSoup and the paragraph loop.
HtmlExtract(resp) ==
    IF resp.fmt = "html" THEN Ok(resp.text) ELSE Ok(JunkText)

Stage(s, ok) == [s |-> s, ok |-> ok]

\* The outcome of a fetch function: its result, and for the record of the run
\* the strategy chosen, the stages passed and the text as extracted.
Fetched(ok, val, err, strategy, stages, raw) ==
    [ok |-> ok, val |-> val, err |-> err, strategy |-> strategy, stages |-> stages,
     raw |-> raw]

CouldNotExtractMsg ==
    Lit("Could not extract sufficient text from the URL. The content may be too short or inaccessible.")

\* app.py: the format test of fetch_content_from_url
IsPdfApp(url, resp) == UrlEndsWithPdf(url) \/ CtypeHasPdf(resp.ctype)

\* app.py: fetch_content_from_url(url), given what requests.get does
FetchContentFromUrl(url, http) ==
    IF http.k = "fail"
    THEN Fetched(FALSE, <<>>, Lit("Failed to fetch content from URL: ") \o http.err, "",
                 <<Stage("Fetching", FALSE)>>, <<>>)
    ELSE LET strategy == IF IsPdfApp(url, http) THEN "pdf" ELSE "html"
             ext == IF strategy = "pdf" THEN PdfExtract(http) ELSE HtmlExtract(http)
         IN IF ~ext.ok
            THEN Fetched(FALSE, <<>>, Lit("Error processing content: ") \o ext.err, strategy,
                         <<Stage("Fetching", TRUE), Stage("Extracting", FALSE)>>, <<>>)
            ELSE LET full_text == Truncate(Collapse(ext.val), MaxLength)
                 IN IF full_text = <<>> \/ TextLen(Strip(full_text)) < MinLength
                    THEN Fetched(FALSE, <<>>, Lit("Error processing content: ") \o CouldNotExtractMsg,
                                 strategy,
                                 <<Stage("Fetching", TRUE), Stage("Extracting", TRUE),
                                   Stage("Normalizing", FALSE)>>, ext.val)
                    ELSE Fetched(TRUE, full_text, <<>>, strategy,
                                 <<Stage("Fetching", TRUE), Stage("Extracting", TRUE),
                                   Stage("Normalizing", TRUE)>>, ext.val)

\* digest: fetch_pdf_text(url) and fetch_html_text(url)
FetchText(strategy, http) ==
    LET prefix == IF strategy = "pdf" THEN "Failed to fetch PDF from URL: "
                  ELSE "Failed to fetch HTML from URL: "
    IN IF http.k = "fail"
       THEN Fetched(FALSE, <<>>, Lit(prefix) \o http.err, strategy, <<Stage("Fetching", FALSE)>>,
                    <<>>)
       ELSE LET ext == IF strategy = "pdf" THEN PdfExtract(http) ELSE HtmlExtract(http)
            IN IF ~ext.ok
               THEN Fetched(FALSE, <<>>, Lit(prefix) \o ext.err, strategy,
                            <<Stage("Fetching", TRUE), Stage("Extracting", FALSE)>>, <<>>)
               ELSE LET cleaned == CleanText(ext.val)
                    IN IF ~cleaned.ok
                       THEN Fetched(FALSE, <<>>, Lit(prefix) \o cleaned.err, strategy,
                                    <<Stage("Fetching", TRUE), Stage("Extracting", TRUE),
                                      Stage("Normalizing", FALSE)>>, ext.val)
                       ELSE Fetched(TRUE, cleaned.val, <<>>, strategy,
                                    <<Stage("Fetching", TRUE), Stage("Extracting", TRUE),
                                      Stage("Normalizing", TRUE)>>, ext.val)

\* digest: the format test of main's Fetch Content handler
IsPdfDigest(url) == UrlLowerHasPdf(url)

-----------------------------------------------------------------------------
(* The record sink: Supabase insert (app.py), Word document (digest) *)

BulletSep == <<<<"\n", 1>>, <<"-", 1>>, <<" ", 1>>>>

RECURSIVE Strs(_)
Strs(items) == IF items = <<>> THEN <<>> ELSE <<items[1].v>> \o Strs(Tail(items))

AllStr(items) == \A i \in 1..Len(items) : items[i].t = "str"

\* "\n- ".join([""] + items)
FlattenNoLead(items) == Canon(Join(BulletSep, Strs(items)))

Flatten(items) == Canon(Join(BulletSep, <<<<>>>> \o Strs(items)))

\* The dict main hands to insert_paper_record (key_points is a list here:
\* summarize_paper_with_openai has coerced it).
RowData(summary, url) ==
    [title |-> summary["title"], url |-> url,
     abstract_summary |-> summary["abstract_summary"],
     key_points |-> IF summary["key_points"].t = "str" THEN summary["key_points"]
                    ELSE JStr(Flatten(summary["key_points"].v)),
     methodology |-> summary["methodology"]]

InsertFailedPrefix == "Error inserting paper record into Supabase: "

NoDataMsg == Lit("Failed to insert paper record: No data returned from Supabase")

\* result.data of the insert: the rows the store reports, numbered by it.
ResultData(data, n) == [i \in 1..n |-> [id |-> i, fields |-> data]]

\* insert_paper_record(supabase, data), given what the store does:
\* store.k = "raise", or store.k = "data" with store.n rows reported.
InsertPaperRecordLenient(data, store) ==
    IF store.k = "raise" THEN Raise(Lit(InsertFailedPrefix) \o store.err)
    ELSE LET result == ResultData(data, store.n)
         IN Ok(IF result = <<>> THEN <<>> ELSE result[1])

InsertPaperRecord(data, store) ==
    IF store.k = "raise" THEN Raise(Lit(InsertFailedPrefix) \o store.err)
    ELSE LET flat == IF data.key_points.t = "list"
                     THEN [data EXCEPT !.key_points = JStr(Flatten(data.key_points.v))]
                     ELSE data
             result == ResultData(flat, store.n)
         IN IF result = <<>> THEN Raise(Lit(InsertFailedPrefix) \o NoDataMsg)
            ELSE Ok(result[1])

IsAlnum(w) == w \in {"a", "b", "A", "B", "x", "1", "2"}

RECURSIVE KeepSafe(_)
KeepSafe(t) ==
    IF t = <<>> THEN <<>>
    ELSE IF IsAlnum(t[1][1]) \/ t[1][1] \in {" ", "-", "_"}
         THEN <<t[1]>> \o KeepSafe(Tail(t))
    ELSE KeepSafe(Tail(t))

RECURSIVE SpacesToUnderscores(_)
SpacesToUnderscores(t) ==
    IF t = <<>> THEN <<>>
    ELSE << <<IF t[1][1] = " " THEN "_" ELSE t[1][1], t[1][2]>> >>
         \o SpacesToUnderscores(Tail(t))

\* safe_title of save_to_word
SafeTitle(title) == Canon(SpacesToUnderscores(Strip(KeepSafe(Prefix(title, TitleCut)))))

\* datetime.now().strftime("%Y%m%d_%H%M%S"): one value per second
Timestamp(now) == ToString(now)

\* filename of save_to_word
FileName(title, now) ==
    Lit("paper_digest_") \o SafeTitle(title) \o Lit("_") \o Lit(Timestamp(now)) \o Lit(".docx")

\* save_to_word(summary, source_type, source_value), given the clock and
\* whether doc.save succeeds
SaveToWord(summary, now, saveOk) ==
    IF summary["title"].t # "str"
    THEN Raise(Lit("Failed to save Word document: ") \o Lit("object is not subscriptable"))
    ELSE IF ~AllStr(summary["key_findings"].v)
    THEN Raise(Lit("Failed to save Word document: ") \o Lit("argument of type 'int' is not iterable"))
    ELSE IF ~saveOk
    THEN Raise(Lit("Failed to save Word document: ") \o Lit("Permission denied"))
    ELSE Ok(FileName(summary["title"].v, now))

-----------------------------------------------------------------------------
(* What the environment can do: the user's inputs, the web, the services *)

Urls ==
    {<<"http://x/", "page">>, <<"http://x/", "paper", ".pdf">>,
     <<"http://x/", "pdf/", "1234">>}

Ctypes == {<<>>, <<"application/pdf">>, <<"text/html", "; charset=utf-8">>}

NoHttp == [k |-> "none", err |-> <<>>, ctype |-> <<>>, fmt |-> "", text |-> <<>>]

HttpFail == [NoHttp EXCEPT !.k = "fail", !.err = Lit("HTTPSConnectionPool: Read timed out.")]

Resp(ctype, fmt, text) == [NoHttp EXCEPT !.k = "resp", !.ctype = ctype, !.fmt = fmt, !.text = text]

\* Texts of pages: 121 characters once collapsed; 99 once collapsed (100
\* before); over the cap.
GoodPage == <<<<"b", 60>>, <<"\n", 2>>, <<"b", 60>>>>

ShortPage == <<<<"b", 1>>, <<"\n", 2>>, <<"b", 97>>>>

LongPage == <<<<"b", 6000>>, <<" ", 2>>, <<"b", 6000>>>>

\* 10001 characters as extracted, 10000 once collapsed; 10001 characters with
\* nothing to collapse.
AtCapPage == <<<<"b", 5000>>, <<"\n", 2>>, <<"b", 4999>>>>

OverCapPage == <<<<"b", 5000>>, <<" ", 1>>, <<"b", 5000>>>>

\* Texts with nothing to collapse: 121 characters; 11 characters.
CleanPage == <<<<"b", 60>>, <<" ", 1>>, <<"b", 60>>>>

CleanShortPage == <<<<"b", 5>>, <<" ", 1>>, <<"b", 5>>>>

PageTexts == {ShortPage, LongPage, AtCapPage, OverCapPage, CleanPage, CleanShortPage}

HttpOutcomes ==
    {HttpFail}
    \cup {Resp(c, f, GoodPage) : c \in Ctypes, f \in {"pdf", "html"}}
    \cup {Resp(<<"text/html", "; charset=utf-8">>, "html", t) : t \in PageTexts}

\* Pasted texts: empty; 5 characters; 122 characters of which 120 are one run
\* of spaces; 150 characters.
PastedTexts ==
    {<<>>, <<<<"a", 5>>>>, <<<<"a", 1>>, <<" ", 120>>, <<"a", 1>>>>, <<<<"a", 150>>>>}


\* Titles: "A B", "A_B", "B".
TitleAB == <<<<"A", 1>>, <<" ", 1>>, <<"B", 1>>>>

TitleA_B == <<<<"A", 1>>, <<"_", 1>>, <<"B", 1>>>>

Titles == {TitleAB, TitleA_B, <<<<"B", 1>>>>}

ListVals ==
    {JList(<<JStr(Lit("p1")), JStr(Lit("p2"))>>), JList(<<>>), JList(<<JStr(Lit("p1"))>>),
     JStr(Lit("p1")), JNum(3), JNull, JObj, JList(<<JStr(Lit("p1")), JNum(2)>>)}

\* A JSON object with the given keys; every field but the title and the list
\* field is a string naming its key.
Obj(keys, listKey, listVal, title) ==
    [k \in keys |-> IF k = "title" THEN JStr(title)
                    ELSE IF k = listKey THEN listVal
                    ELSE JStr(Lit(k))]

Range(seq) == {seq[i] : i \in 1..Len(seq)}

Objects(variant) ==
    LET all == Range(RequiredKeys(variant))
        lk == ListKey(variant)
        l2 == JList(<<JStr(Lit("p1")), JStr(Lit("p2"))>>)
    IN {Obj(all, lk, lv, TitleAB) : lv \in ListVals}
       \cup {Obj(all, lk, l2, t) : t \in Titles}
       \cup {Obj(ks, lk, l2, TitleAB) :
                ks \in {{}, {"title"}, all \ {"title"}, all \ {"methodology"},
                        all \ {lk}, {"title", lk}}}

NoReply == [k |-> "none", err |-> <<>>, auth |-> FALSE, content |-> <<>>]

ServiceRaise(err, auth) == [NoReply EXCEPT !.k = "raise", !.err = err, !.auth = auth]

Reply(content) == [NoReply EXCEPT !.k = "reply", !.content = content]

\* Exceptions of client.chat.completions.create: a rejected key, a rate
\* limit, a rejected request.
ServiceErrors ==
    {ServiceRaise(<<<<"Error code: 401 - Incorrect API key provided. code: ", 1>>,
                    <<"invalid", 1>>, <<"_", 1>>, <<"api_key", 1>>>>, TRUE),
     ServiceRaise(Lit("Error code: 429 - Rate limit reached"), FALSE),
     ServiceRaise(<<<<"Error code: 400 - type: ", 1>>, <<"invalid", 1>>,
                    <<"_request_error", 1>>>>, FALSE)}

\* Replies that are no JSON: plain prose; prose naming the key; the same word
\* past the first 200 characters; a JSON-like text with a raw control
\* character.
ProseReplies ==
    {TextPiece(Lit("I cannot summarize this paper."), ExpectingValue),
     TextPiece(<<<<"The paper discusses how an ", 1>>, <<"api_key", 1>>, <<" is rotated.", 1>>>>,
               ExpectingValue),
     TextPiece(<<<<"x", 195>>, <<"api_key", 1>>>>, ExpectingValue),
     TextPiece(Lit("{\"title\": \"A\tB\"}"), InvalidControl)}

Replies(variant) ==
    ServiceErrors
    \cup {Reply(<<p>>) : p \in ProseReplies}
    \cup {Reply(<<ObjPiece(o)>>) : o \in Objects(variant)}
    \cup {Reply(c) : c \in {<<FenceJson, ObjPiece(Obj(Range(RequiredKeys(variant)),
                                                      ListKey(variant), JStr(Lit("p1")), TitleAB)), Fence>>,
                            <<Fence, ObjPiece(Obj({"title"}, ListKey(variant), JNull, TitleAB)), Fence>>,
                            <<Fence, Fence>>}}

NoStore == [k |-> "none", n |-> 0, err |-> <<>>]

Stores ==
    {[NoStore EXCEPT !.k = "data", !.n = 1], [NoStore EXCEPT !.k = "data", !.n = 0],
     [NoStore EXCEPT !.k = "raise", !.err = Lit("Connection refused")]}

-----------------------------------------------------------------------------
(* Script runs.  Every user action reruns main; `run` records what that run  *)
(* did: the handler, the stages entered (and whether each succeeded), the   *)
(* external calls made, the inputs the environment gave and the outputs.    *)

NoRun ==
    [kind |-> "none", status |-> "none", stages |-> <<>>, calls |-> <<>>, err |-> <<>>,
     url |-> <<>>, http |-> NoHttp, strategy |-> "", input |-> <<>>, sent |-> <<>>,
     reply |-> NoReply, summary |-> Raise(<<>>), submitted |-> <<>>, store |-> NoStore,
     out |-> Raise(<<>>)]

NoSS == [has |-> FALSE, paper_text |-> <<>>, source_type |-> "", source_value |-> <<>>]

RawSentinel == <<"raw_text">>

\* app.py main, the handler of "Summarize & Save": the sink step
AppSinkRetry(r, p) ==
    IF ~p.ok
    THEN [r EXCEPT !.out = p, !.calls = @ \o <<"insert", "insert">>, !.status = "failed",
                   !.err = p.err,
                   !.stages = @ \o <<Stage("Sinking", FALSE), Stage("Sinking", FALSE)>>]
    ELSE [r EXCEPT !.out = p, !.calls = @ \o <<"insert">>, !.status = "ok",
                   !.stages = @ \o <<Stage("Sinking", TRUE)>>]

AppSink(r, p) ==
    IF ~p.ok
    THEN [r EXCEPT !.out = p, !.calls = @ \o <<"insert">>, !.status = "failed",
                   !.err = p.err, !.stages = @ \o <<Stage("Sinking", FALSE)>>]
    ELSE [r EXCEPT !.out = p, !.calls = @ \o <<"insert">>, !.status = "ok",
                   !.stages = @ \o <<Stage("Sinking", TRUE)>>]

\* ... the steps after the fetch
AppAfterFetchNoHalt(r, s, url, store) ==
    IF ~s.ok
    THEN AppSink([r EXCEPT !.summary = s, !.calls = @ \o <<"create">>, !.store = store,
                           !.submitted = [title |-> JNull, url |-> url,
                                          abstract_summary |-> JNull, key_points |-> JNull,
                                          methodology |-> JNull],
                           !.stages = @ \o <<Stage("Summarizing", FALSE)>>],
                 InsertPaperRecord([title |-> JNull, url |-> url, abstract_summary |-> JNull,
                                    key_points |-> JNull, methodology |-> JNull], store))
    ELSE IF ~AllStr(s.val["key_points"].v)
    THEN [r EXCEPT !.summary = s, !.calls = @ \o <<"create">>, !.status = "failed",
                   !.err = Lit("sequence item 2: expected str instance, int found"),
                   !.stages = @ \o <<Stage("Summarizing", TRUE), Stage("Sinking", FALSE)>>]
    ELSE AppSink([r EXCEPT !.summary = s, !.calls = @ \o <<"create">>, !.store = store,
                           !.submitted = RowData(s.val, url),
                           !.stages = @ \o <<Stage("Summarizing", TRUE)>>],
                 InsertPaperRecord(RowData(s.val, url), store))

AppAfterFetch(r, s, url, store) ==
    IF ~s.ok
    THEN [r EXCEPT !.summary = s, !.calls = @ \o <<"create">>, !.status = "failed",
                   !.err = s.err, !.stages = @ \o <<Stage("Summarizing", FALSE)>>]
    ELSE IF ~AllStr(s.val["key_points"].v)
    THEN [r EXCEPT !.summary = s, !.calls = @ \o <<"create">>, !.status = "failed",
                   !.err = Lit("sequence item 2: expected str instance, int found"),
                   !.stages = @ \o <<Stage("Summarizing", TRUE), Stage("Sinking", FALSE)>>]
    ELSE AppSink([r EXCEPT !.summary = s, !.calls = @ \o <<"create">>, !.store = store,
                           !.submitted = RowData(s.val, url),
                           !.stages = @ \o <<Stage("Summarizing", TRUE)>>],
                 InsertPaperRecord(RowData(s.val, url), store))

\* ... the fetch step and what follows
AppPipeline(base, f, http, reply, store) ==
    IF ~f.ok
    THEN [base EXCEPT !.http = http, !.strategy = f.strategy, !.input = f.raw,
                      !.stages = f.stages, !.calls = <<"get">>, !.status = "failed",
                      !.err = f.err]
    ELSE AppAfterFetch([base EXCEPT !.http = http, !.strategy = f.strategy, !.input = f.raw,
                                    !.stages = f.stages, !.calls = <<"get">>,
                                    !.sent = f.val, !.reply = reply],
                       SummarizePaper("A", reply), base.url, store)

\* app.py main: the handler of "Summarize & Save"
AppRunOf(key, url, http, reply, store) ==
    IF ~key
    THEN [NoRun EXCEPT !.kind = "summarize_save", !.url = url, !.status = "stopped",
                       !.err = Lit("No OpenAI API key provided. Please enter it at the top of the page.")]
    ELSE IF url = <<>>
    THEN [NoRun EXCEPT !.kind = "summarize_save", !.url = url, !.status = "stopped",
                       !.err = Lit("Please enter a paper URL.")]
    ELSE AppPipeline([NoRun EXCEPT !.kind = "summarize_save", !.url = url],
                     FetchContentFromUrl(url, http), http, reply, store)

\* digest main, the handler of "Fetch Content": the record of the fetch
DigestFetched(url, http, f) ==
    IF f.ok
    THEN [NoRun EXCEPT !.kind = "fetch", !.url = url, !.http = http,
                       !.strategy = f.strategy, !.input = f.raw, !.stages = f.stages,
                       !.calls = <<"get">>, !.out = f, !.status = "ok"]
    ELSE [NoRun EXCEPT !.kind = "fetch", !.url = url, !.http = http,
                       !.strategy = f.strategy, !.input = f.raw, !.stages = f.stages,
                       !.calls = <<"get">>, !.out = f, !.status = "failed",
                       !.err = Lit("Error fetching content: ") \o f.err]

\* digest main: the handler of "Fetch Content"
DigestFetchRunOf(url, http) ==
    DigestFetched(url, http, FetchText(IF IsPdfDigest(url) THEN "pdf" ELSE "html", http))

\* digest main, the handler of "Generate Digest": the export step
DigestSink(r, w) ==
    IF ~w.ok
    THEN [r EXCEPT !.out = w, !.calls = @ \o <<"save">>, !.status = "failed", !.err = w.err,
                   !.stages = @ \o <<Stage("Sinking", FALSE)>>]
    ELSE [r EXCEPT !.out = w, !.calls = @ \o <<"save">>, !.status = "ok",
                   !.stages = @ \o <<Stage("Sinking", TRUE)>>]

\* ... the try block
DigestPipeline(r, s, now, saveOk) ==
    IF ~s.ok
    THEN [r EXCEPT !.summary = s, !.calls = <<"create">>, !.status = "failed",
                   !.err = s.err, !.stages = <<Stage("Summarizing", FALSE)>>]
    ELSE DigestSink([r EXCEPT !.summary = s, !.calls = <<"create">>,
                              !.stages = <<Stage("Summarizing", TRUE)>>],
                    SaveToWord(s.val, now, saveOk))

\* ... the checks before the try block; "" when they pass
GenerateStop(key, md, raw, state) ==
    IF ~key THEN "No OpenAI API key provided. Please enter your key at the top."
    ELSE IF md = "URL" /\ (~state.has \/ state.paper_text = <<>>)
    THEN "Please fetch content from URL first by clicking 'Fetch Content'."
    ELSE IF md # "URL" /\ (raw = <<>> \/ TextLen(Strip(raw)) < MinLength)
    THEN "Please paste paper text (at least 100 characters)."
    ELSE ""

\* digest main: the handler of "Generate Digest"
DigestGenerateRunOf(key, md, url, raw, state, reply, now, saveOk) ==
    IF GenerateStop(key, md, raw, state) # ""
    THEN [NoRun EXCEPT !.kind = "generate", !.url = url, !.status = "stopped",
                       !.input = IF md = "URL" THEN state.paper_text ELSE raw,
                       !.err = Lit(GenerateStop(key, md, raw, state))]
    ELSE DigestPipeline([NoRun EXCEPT !.kind = "generate", !.url = url, !.reply = reply,
                                      !.input = IF md = "URL" THEN state.paper_text ELSE raw,
                                      !.sent = IF md = "URL" THEN state.paper_text ELSE raw],
                        SummarizePaper("B", reply), now, saveOk)

\* digest main, Raw Text mode: every rerun copies the text area into the
\* session state when it is not empty.
RawSync(md, raw, state) ==
    IF md = "Raw Text" /\ raw # <<>>
    THEN [has |-> TRUE, paper_text |-> raw, source_type |-> "raw_text",
          source_value |-> RawSentinel]
    ELSE state

-----------------------------------------------------------------------------
(* The state machine *)

Init ==
    /\ app \in {"app", "digest"}
    /\ apiKey = FALSE
    /\ mode = "URL"
    /\ paper_url = <<>>
    /\ raw_text = <<>>
    /\ ss = NoSS
    /\ run = NoRun
    /\ files = <<>>
    /\ clock = 0
    /\ nruns = 0

\* Both programs: the user types an API key (main's first text_input).
EnterKey ==
    /\ ~apiKey
    /\ apiKey' = TRUE
    /\ run' = NoRun
    /\ ss' = RawSync(mode, raw_text, ss)
    /\ UNCHANGED <<app, mode, paper_url, raw_text, files, clock, nruns>>

\* Both programs: the user changes the URL field.
EditUrl ==
    /\ mode = "URL"
    /\ \E u \in Urls \cup {<<>>} :
        /\ u # paper_url
        /\ paper_url' = u
    /\ run' = NoRun
    /\ UNCHANGED <<app, apiKey, mode, raw_text, ss, files, clock, nruns>>

\* app.py: "Summarize & Save"
ClickSummarizeSave ==
    /\ app = "app"
    /\ nruns < MaxRuns
    /\ \E http \in (IF apiKey /\ paper_url # <<>> THEN HttpOutcomes ELSE {NoHttp}) :
       \E reply \in (IF http.k # "none" /\ FetchContentFromUrl(paper_url, http).ok
                     THEN Replies("A") ELSE {NoReply}) :
       \E store \in (IF reply.k # "none" /\ SummarizePaper("A", reply).ok
                     THEN Stores ELSE {NoStore}) :
          LET r == AppRunOf(apiKey, paper_url, http, reply, store)
          IN run' = r
    /\ nruns' = nruns + 1
    /\ UNCHANGED <<app, apiKey, mode, paper_url, raw_text, ss, files, clock>>

\* digest: the radio.  A widget that is not drawn in a run may lose its value.
SetMode ==
    /\ app = "digest"
    /\ \E m \in {"URL", "Raw Text"} :
        /\ m # mode
        /\ mode' = m
        /\ IF m = "URL"
           THEN /\ raw_text' \in {raw_text, <<>>}
                /\ paper_url' = paper_url
                /\ ss' = ss
           ELSE /\ paper_url' \in {paper_url, <<>>}
                /\ raw_text' = raw_text
                /\ ss' = RawSync(m, raw_text, ss)
    /\ run' = NoRun
    /\ UNCHANGED <<app, apiKey, files, clock, nruns>>

\* digest: the user pastes or edits the text area.
EditRaw ==
    /\ app = "digest"
    /\ mode = "Raw Text"
    /\ \E t \in PastedTexts :
        /\ t # raw_text
        /\ raw_text' = t
        /\ ss' = RawSync(mode, t, ss)
    /\ run' = NoRun
    /\ UNCHANGED <<app, apiKey, mode, paper_url, files, clock, nruns>>

\* digest: "Fetch Content"
ClickFetch ==
    /\ app = "digest"
    /\ mode = "URL"
    /\ paper_url # <<>>
    /\ nruns < MaxRuns
    /\ \E http \in HttpOutcomes :
          LET r == DigestFetchRunOf(paper_url, http)
          IN /\ run' = r
             /\ ss' = IF r.status = "ok"
                      THEN [has |-> TRUE, paper_text |-> r.out.val, source_type |-> "url",
                            source_value |-> paper_url]
                      ELSE ss
    /\ nruns' = nruns + 1
    /\ UNCHANGED <<app, apiKey, mode, paper_url, raw_text, files, clock>>

\* digest: "Generate Digest"
ClickGenerate ==
    /\ app = "digest"
    /\ nruns < MaxRuns
    /\ LET state == RawSync(mode, raw_text, ss)
       IN \E reply \in (IF GenerateStop(apiKey, mode, raw_text, state) # ""
                        THEN {NoReply} ELSE Replies("B")) :
          \E saveOk \in (IF reply.k # "none" /\ SummarizePaper("B", reply).ok
                         THEN BOOLEAN ELSE {TRUE}) :
             LET r == DigestGenerateRunOf(apiKey, mode, paper_url, raw_text, state,
                                          reply, clock, saveOk)
             IN /\ run' = r
                /\ ss' = state
                /\ files' = IF r.status = "ok" THEN Append(files, r.out.val) ELSE files
    /\ nruns' = nruns + 1
    /\ UNCHANGED <<app, apiKey, mode, paper_url, raw_text, clock>>

\* digest: another browser session of the same server (its own session state,
\* the same working directory and clock) completes a digest: save_to_word.
PeerGenerate ==
    /\ app = "digest"
    /\ nruns < MaxRuns
    /\ LET w == SaveToWord(Obj(Range(RequiredKeysB), "key_findings", JList(<<>>), TitleA_B),
                           clock, TRUE)
       IN files' = Append(files, w.val)
    /\ nruns' = nruns + 1
    /\ UNCHANGED <<app, apiKey, mode, paper_url, raw_text, ss, run, clock>>

\* digest: a second passes.
Tick ==
    /\ app = "digest"
    /\ clock < MaxClock
    /\ clock' = clock + 1
    /\ UNCHANGED <<app, apiKey, mode, paper_url, raw_text, ss, run, files, nruns>>

Next ==
    \/ EnterKey
    \/ EditUrl
    \/ ClickSummarizeSave
    \/ SetMode
    \/ EditRaw
    \/ ClickFetch
    \/ ClickGenerate
    \/ PeerGenerate
    \/ Tick

Spec == Init /\ [][Next]_vars

-----------------------------------------------------------------------------
(* Vocabulary of the properties *)

Variant == IF app = "app" THEN "A" ELSE "B"

Called(name) == name \in Range(run.calls)

CountCalls(name) == Cardinality({i \in 1..Len(run.calls) : run.calls[i] = name})

SinkCalled == Called("insert") \/ Called("save")

\* The run got a text to work on: a fetch that extracted one, or a Generate
\* Digest pressed with a key present.
HasInput ==
    \/ run.kind \in {"fetch", "summarize_save"}
       /\ \E i \in 1..Len(run.stages) : run.stages[i] = Stage("Extracting", TRUE)
    \/ run.kind = "generate" /\ apiKey

\* The length of a text once whitespace runs are collapsed and the ends stripped.
NormLen(t) == TextLen(Strip(Join(Lit(" "), Split(t, <<>>))))

\* The messages that report insufficient content.
InsufficientReport(err) ==
    \E i \in 1..Len(err) :
        <<err[i]>> \in {TooShortMsg, CouldNotExtractMsg,
                        Lit("Please paste paper text (at least 100 characters)."),
                        Lit("Please fetch content from URL first by clicking 'Fetch Content'.")}

AuthReport(err) == err # <<>> /\ err[1][1] = AuthFailedPrefix

\* The reply of the service, with its fences removed, as json.loads sees it.
Cleaned == StripFences(run.reply.content)

ReplyParses == run.reply.k = "reply" /\ Len(Cleaned) = 1 /\ Cleaned[1].k = "obj"

ReplyObject == Cleaned[1].f

-----------------------------------------------------------------------------
(* C1: a run whose input text is shorter than 100 characters once            *)
(* normalized fails with the insufficient-content error and does not call    *)
(* the structured extractor.                                                 *)
C1_ShortInputNeverSummarized ==
    (HasInput /\ NormLen(run.input) < MinLength)
        => /\ run.status \in {"failed", "stopped"}
           /\ InsufficientReport(run.err)
           /\ ~Called("create")

(* C2: a reply that is no JSON fails the run with the malformed-response     *)
(* error, carrying the parse error and the first 200 characters of the       *)
(* cleaned text, and never with the authentication report; the               *)
(* authentication report is given only for authentication errors of the      *)
(* service call.                                                             *)
C2_MalformedNeverCredential ==
    /\ (run.reply.k = "reply" /\ ~ReplyParses)
        => /\ run.status = "failed"
           /\ ~AuthReport(run.err)
           /\ run.err = Lit(SummarizeErrorPrefix) \o Lit(ParseFailedPrefix)
                        \o JsonLoads(Cleaned).err \o Lit(". Response was: ")
                        \o Prefix(RenderAll(Cleaned), DiagLength)
    /\ AuthReport(run.err) => (run.reply.k = "raise" /\ run.reply.auth)

(* C3: a reply that parses as a JSON object and lacks a required key of the  *)
(* variant fails the extractor with the error naming the first missing key   *)
(* in the declared order, and no summary is returned.                        *)
C3_FirstMissingKeyNamed ==
    ReplyParses =>
        \A i \in 1..Len(RequiredKeys(Variant)) :
            (/\ RequiredKeys(Variant)[i] \notin DOMAIN ReplyObject
             /\ \A j \in 1..(i - 1) : RequiredKeys(Variant)[j] \in DOMAIN ReplyObject)
            => /\ run.status = "failed"
               /\ ~run.summary.ok
               /\ ~SinkCalled
               /\ run.err = <<<<SummarizeErrorPrefix, 1>>, <<MissingKeyPrefix, 1>>,
                              <<RequiredKeys(Variant)[i], 1>>, <<"' in OpenAI response", 1>>>>

\* Scenario 4: {"title": "X"} under variant A names abstract_summary.
C3_Witness ==
    /\ app = "app"
    /\ ReplyParses
    /\ DOMAIN ReplyObject = {"title"}
    /\ run.status = "failed"
    /\ run.err[3][1] = "abstract_summary"

(* C4: for a reply with all required keys the summary's list field is a      *)
(* list: the reply's list unchanged, [s] for a bare string s, [] for any     *)
(* other type; the extractor does not fail and the other fields are          *)
(* returned unchanged.                                                       *)
C4_ListCoercion ==
    (ReplyParses /\ Range(RequiredKeys(Variant)) \subseteq DOMAIN ReplyObject)
        => /\ run.summary.ok
           /\ DOMAIN run.summary.val = DOMAIN ReplyObject
           /\ \A k \in DOMAIN ReplyObject \ {ListKey(Variant)} :
                 run.summary.val[k] = ReplyObject[k]
           /\ LET given == ReplyObject[ListKey(Variant)]
                  got == run.summary.val[ListKey(Variant)]
              IN /\ got.t = "list"
                 /\ given.t = "list" => got = given
                 /\ given.t = "str" => got.v = <<given>>
                 /\ given.t \notin {"list", "str"} => got.v = <<>>

C4_Witness ==
    /\ ReplyParses
    /\ Range(RequiredKeys(Variant)) \subseteq DOMAIN ReplyObject
    /\ ReplyObject[ListKey(Variant)] = JStr(Lit("p1"))
    /\ run.summary.ok
    /\ run.summary.val[ListKey(Variant)] = JList(<<JStr(Lit("p1"))>>)

(* C5: the store's insert and the document export are invoked only after    *)
(* the extractor returned, in the same run, a summary that parsed and has    *)
(* every required key; a run in which fetching, extraction, normalization    *)
(* or summarization failed makes no insert or export and ends in failure.    *)
C5_SinkOnlyAfterValidSummary ==
    /\ SinkCalled
        => /\ ReplyParses
           /\ run.summary.ok
           /\ Range(RequiredKeys(Variant)) \subseteq DOMAIN run.summary.val
           /\ run.summary.val[ListKey(Variant)].t = "list"
           /\ \E i, j \in 1..Len(run.calls) :
                 i < j /\ run.calls[i] = "create" /\ run.calls[j] \in {"insert", "save"}
    /\ (\E i \in 1..Len(run.stages) :
           /\ run.stages[i].s \in {"Fetching", "Extracting", "Normalizing", "Summarizing"}
           /\ ~run.stages[i].ok)
        => (~SinkCalled /\ run.status = "failed")

C5_Witness == run.kind = "summarize_save" /\ Called("insert") /\ run.status = "ok"

\* "- " before each item
RECURSIVE Dashed(_)
Dashed(items) ==
    IF items = <<>> THEN <<>>
    ELSE <<<<<<"-", 1>>, <<" ", 1>>>> \o items[1].v>> \o Dashed(Tail(items))

\* "\n- " before each item
RECURSIVE NewlineDashed(_)
NewlineDashed(items) ==
    IF items = <<>> THEN <<>>
    ELSE <<<<"\n", 1>>, <<"-", 1>>, <<" ", 1>>>> \o items[1].v \o NewlineDashed(Tail(items))

OtherFieldsSubmitted ==
    /\ run.submitted.title = run.summary.val["title"]
    /\ run.submitted.abstract_summary = run.summary.val["abstract_summary"]
    /\ run.submitted.methodology = run.summary.val["methodology"]
    /\ run.submitted.url = paper_url
    /\ CountCalls("insert") = 1

(* C6, as claimed: the submitted list field is "- i1\n- i2\n...\n- in", with *)
(* no leading or trailing separator, in one insert with the other fields.    *)
C6_BulletsNoLeadingSeparator ==
    Called("insert")
        => /\ run.submitted.key_points
                = JStr(Canon(Join(Lit("\n"), Dashed(run.summary.val["key_points"].v))))
           /\ OtherFieldsSubmitted

(* C6, amended: the submitted list field is the items in their order, each   *)
(* preceded by "\n- " (so it starts with a newline when the list is not      *)
(* empty, has no trailing separator, and is "" for the empty list), in one   *)
(* insert with the other fields and url = locator.                           *)
C6_BulletsLeadingNewline ==
    Called("insert")
        => /\ run.submitted.key_points
                = JStr(Canon(NewlineDashed(run.summary.val["key_points"].v)))
           /\ OtherFieldsSubmitted

C6_Witness ==
    /\ Called("insert")
    /\ Len(run.summary.val["key_points"].v) = 2
    /\ run.submitted.key_points.v
         = <<<<"\n", 1>>, <<"-", 1>>, <<" ", 1>>, <<"p1", 1>>,
             <<"\n", 1>>, <<"-", 1>>, <<" ", 1>>, <<"p2", 1>>>>

(* C7: when the insert reports no row the sink fails with the persistence    *)
(* error and the run is reported failed; when it reports a row the sink      *)
(* returns the first row.                                                    *)
C7_EmptyInsertFails ==
    (Called("insert") /\ run.store.k = "data")
        => IF run.store.n = 0
           THEN /\ ~run.out.ok
                /\ run.status = "failed"
                /\ run.err = Lit(InsertFailedPrefix) \o NoDataMsg
           ELSE /\ run.out.ok
                /\ run.out.val = ResultData(run.submitted, run.store.n)[1]
                /\ run.status = "ok"

C7_Witness ==
    /\ Called("insert")
    /\ run.store.k = "data"
    /\ run.store.n = 0
    /\ run.status = "failed"

(* C8: the extraction strategy follows the declared content type when there  *)
(* is one (PDF marker: binary document, otherwise markup); the .pdf          *)
(* extension decides only when none is declared.                             *)
C8_ContentTypeAuthoritative ==
    run.http.k = "resp"
        => run.strategy =
              IF run.http.ctype # <<>>
              THEN (IF CtypeHasPdf(run.http.ctype) THEN "pdf" ELSE "html")
              ELSE (IF UrlEndsWithPdf(run.url) THEN "pdf" ELSE "html")

(* C9: any two exports return different handles, so no export overwrites a   *)
(* document of an earlier or concurrent run.                                 *)
C9_HandlesUnique ==
    \A i, j \in 1..Len(files) : i # j => files[i] # files[j]

StageRank(s) ==
    CASE s = "Fetching" -> 1
      [] s = "Extracting" -> 2
      [] s = "Normalizing" -> 3
      [] s = "Summarizing" -> 4
      [] OTHER -> 5

\* The stage in which a call is made.
CallRank(c) ==
    CASE c = "get" -> 1
      [] c = "create" -> 4
      [] OTHER -> 5

(* C10: a run enters the stages in the order Fetching, Extracting,           *)
(* Normalizing, Summarizing, Sinking, none twice; it makes at most one fetch *)
(* request, one summarization call and one sink call; a stage that fails is  *)
(* the last one, the run fails, and no call follows.                         *)
C10_StagesOnceInOrder ==
    /\ \A i, j \in 1..Len(run.stages) :
          i < j => StageRank(run.stages[i].s) < StageRank(run.stages[j].s)
    /\ \A i \in 1..(Len(run.stages) - 1) : run.stages[i].ok
    /\ \A i, j \in 1..Len(run.calls) :
          i < j => CallRank(run.calls[i]) < CallRank(run.calls[j])
    /\ CountCalls("get") <= 1 /\ CountCalls("create") <= 1
    /\ CountCalls("insert") + CountCalls("save") <= 1
    /\ (run.stages # <<>> /\ ~run.stages[Len(run.stages)].ok)
          => /\ run.status = "failed"
             /\ \A i \in 1..Len(run.calls) :
                   CallRank(run.calls[i]) <= StageRank(run.stages[Len(run.stages)].s)
    /\ run.status = "ok" => \A i \in 1..Len(run.stages) : run.stages[i].ok

C10_Witness ==
    /\ Len(run.stages) = 5
    /\ run.stages[5] = Stage("Sinking", FALSE)
    /\ run.calls = <<"get", "create", "insert">>

-----------------------------------------------------------------------------
(* Vocabulary of the normalizer's properties *)

\* The run extracted a text and handed it to the normalizer.
Extracted ==
    /\ run.kind \in {"fetch", "summarize_save"}
    /\ \E i \in 1..Len(run.stages) : run.stages[i] = Stage("Extracting", TRUE)

\* The normalizer returned a text.
Normalized == \E i \in 1..Len(run.stages) : run.stages[i] = Stage("Normalizing", TRUE)

\* The text the normalizer returned: fetch_html_text / fetch_pdf_text's result
\* in the digest, fetch_content_from_url's result in app.py.
NormOutput == IF run.kind = "fetch" THEN run.out.val ELSE run.sent

\* The whitespace-collapsed, stripped form of a text.
CollapsedForm(t) == Canon(Strip(Join(Lit(" "), Split(t, <<>>))))

\* t ends with the truncation marker.
EndsWithMarker(t) ==
    /\ Len(t) >= Len(TruncMarker)
    /\ SubSeq(t, Len(t) - Len(TruncMarker) + 1, Len(t)) = TruncMarker

MarkerLen == TextLen(TruncMarker)

(* C11: when the collapsed, stripped form of the extracted text is longer    *)
(* than 10000 characters, the normalizer returns its first 10000 characters  *)
(* followed by "... [truncated]", 10015 characters in all; when the form has *)
(* at most 10000 characters, what the normalizer returns is that form, with  *)
(* no marker appended.                                                       *)
C11_TruncationLength ==
    Extracted =>
        IF NormLen(run.input) > MaxLength
        THEN /\ Normalized
             /\ NormOutput = Canon(Prefix(CollapsedForm(run.input), MaxLength) \o TruncMarker)
             /\ EndsWithMarker(NormOutput)
             /\ TextLen(NormOutput) = MaxLength + MarkerLen
             /\ MarkerLen = 15
        ELSE Normalized =>
                /\ NormOutput = CollapsedForm(run.input)
                /\ ~EndsWithMarker(NormOutput)
                /\ TextLen(NormOutput) <= MaxLength

\* A form of 10001 characters is cut; the marker follows the 10000th.
C11_Witness ==
    /\ Extracted
    /\ NormLen(run.input) = MaxLength + 1
    /\ Normalized
    /\ TextLen(NormOutput) = MaxLength + MarkerLen

\* A text of more than 10000 characters whose form has exactly 10000 is
\* returned whole.
C11_WitnessAtCap ==
    /\ Extracted
    /\ TextLen(run.input) > MaxLength
    /\ NormLen(run.input) = MaxLength
    /\ Normalized
    /\ TextLen(NormOutput) = MaxLength

-----------------------------------------------------------------------------
\* A text with no leading or trailing whitespace and no whitespace other than
\* single spaces between words.
AlreadyNormalized(t) ==
    /\ t = Canon(t)
    /\ \A i \in 1..Len(t) :
          IsSpace(t[i][1]) => /\ t[i][1] = " "
                              /\ t[i][2] = 1
                              /\ i \notin {1, Len(t)}

(* C12 (as stated): a text that is already normalized (no leading or         *)
(* trailing whitespace, single spaces only) and shorter than the cap comes   *)
(* back from the normalizer exactly as it went in.                           *)
C12_IdempotentUnderCap ==
    (Extracted /\ AlreadyNormalized(run.input) /\ TextLen(run.input) < MaxLength)
        => /\ Normalized
           /\ NormOutput = run.input

(* C12 (amended): an already normalized text shorter than the cap comes back *)
(* exactly as it went in when it has at least 100 characters; with fewer     *)
(* than 100 characters the normalizer returns nothing: it raises the         *)
(* insufficient-content error, the run fails and the summarization service   *)
(* is not called.                                                            *)
C12_IdempotentAboveMinimum ==
    (Extracted /\ AlreadyNormalized(run.input) /\ TextLen(run.input) < MaxLength)
        => IF TextLen(run.input) >= MinLength
           THEN /\ Normalized
                /\ NormOutput = run.input
           ELSE /\ ~Normalized
                /\ run.status = "failed"
                /\ InsufficientReport(run.err)
                /\ ~Called("create")

\* A text of two words and one space, 121 characters, came back unchanged.
C12_Witness ==
    /\ Extracted
    /\ AlreadyNormalized(run.input)
    /\ \E i \in 1..Len(run.input) : run.input[i][1] = " "
    /\ TextLen(run.input) >= MinLength
    /\ TextLen(run.input) < MaxLength
    /\ Normalized
    /\ NormOutput = run.input

-----------------------------------------------------------------------------
(* C13: every text handed to the summarization call, whether fetched from a  *)
(* URL or pasted, is in normalized form: whitespace-collapsed and at most    *)
(* 10000 + 15 characters long.                                               *)
C13_SentTextNormalized ==
    Called("create")
        => /\ AlreadyNormalized(run.sent)
           /\ TextLen(run.sent) <= MaxLength + MarkerLen

-----------------------------------------------------------------------------
(* C14: in the digest, a Generate Digest pressed in URL mode that reaches    *)
(* the summarization call summarizes a text that Fetch Content got from the  *)
(* URL now in the URL field: the session's text has source type "url" and    *)
(* its source is that URL.                                                   *)
C14_GenerateUsesCurrentUrl ==
    (app = "digest" /\ run.kind = "generate" /\ mode = "URL" /\ Called("create"))
        => /\ run.sent = ss.paper_text
           /\ ss.source_type = "url"
           /\ ss.source_value = paper_url

====
